---------------------------- MODULE Spec2Model ----------------------------
(***************************************************************************)
(* A model of src/lambda_function.py: one invocation of lambda_handler,    *)
(* which reads the EC2 inventory twice, fetches CloudWatch metrics for the *)
(* running instances on a thread pool, renders a spreadsheet report and    *)
(* uploads it to S3.                                                       *)
(*                                                                         *)
(* Percentages are integers in hundredths of a percent (5004 is 50.04 %).  *)
(* A Python value is a record [t, v]: t = "num" for an int/float, "None"   *)
(* for None, "NA" for the string 'NA'.  An instance's Name tag is not      *)
(* modelled: the name is the instance id (the default of line 50).         *)
(***************************************************************************)
EXTENDS Integers, Sequences, FiniteSets, TLC

(***************************************************************************)
(* Bounds of the model.                                                    *)
(***************************************************************************)
NumInstances == 2

(* ThreadPoolExecutor(max_workers=10) *)
MaxWorkers == 10

IDs == 1..NumInstances

(* The size of the fleets that outnumber the pool's threads. *)
PoolInstances == 12

PoolIDs == 1..PoolInstances

(***************************************************************************)
(* Python values.                                                          *)
(***************************************************************************)
Num(x) == [t |-> "num", v |-> x]
PyNone == [t |-> "None", v |-> 0]
PyNA == [t |-> "NA", v |-> 0]

(* isinstance(x, (int, float)) *)
IsNumber(x) == x.t = "num"

(* n percent, in hundredths *)
Pct(n) == n * 100

(* The readings CloudWatch may report, in hundredths of a percent.  They   *)
(* straddle the cut-offs 50 and 60 and include values that are not a whole *)
(* number of tenths; 60.25 is an exact binary tie at one decimal place.    *)
Readings == {0, 1230, 4996, 5000, 5004, 6000, 6004, 6025, 10000}

(***************************************************************************)
(* round(x, 1) and f'{x:.1f}': the nearest tenth, an exact tie going to    *)
(* the even tenth.  The result is again in hundredths (a multiple of 10).  *)
(***************************************************************************)
Round1(x) ==
    LET q == x \div 10
        r == x % 10
    IN  IF r < 5 THEN q * 10
        ELSE IF r > 5 THEN (q + 1) * 10
        ELSE IF q % 2 = 0 THEN q * 10 ELSE (q + 1) * 10

(***************************************************************************)
(* CloudWatch's answer to one get_metric_data query is an outcome          *)
(*   [k |-> "val", v |-> r]   a data point with reading r                  *)
(*   [k |-> "nodata"]         no data point in the window                  *)
(*   [k |-> "clienterr"]      the call raises botocore ClientError         *)
(*   [k |-> "exc"]            the call raises another exception            *)
(* get_current_metric_value returns [raised, val]: the latest value, None  *)
(* when there is none or on a ClientError; other exceptions propagate.     *)
(***************************************************************************)
Val(r) == [k |-> "val", v |-> r]
NoData == [k |-> "nodata", v |-> 0]
ClientErr == [k |-> "clienterr", v |-> 0]
OtherExc == [k |-> "exc", v |-> 0]

(* A faulty variant: a ClientError is not caught. *)
get_current_metric_value_Leaky(o) ==
    IF o.k = "val" THEN [raised |-> FALSE, val |-> Num(o.v)]
    ELSE IF o.k = "nodata" THEN [raised |-> FALSE, val |-> PyNone]
    ELSE [raised |-> TRUE, val |-> PyNone]

get_current_metric_value(o) ==
    IF o.k = "val" THEN [raised |-> FALSE, val |-> Num(o.v)]
    ELSE IF o.k = "exc" THEN [raised |-> TRUE, val |-> PyNone]
    ELSE [raised |-> FALSE, val |-> PyNone]


(***************************************************************************)
(* CloudWatch's answer to list_metrics for one metric name is a listing    *)
(* [list, metrics]: list = "ok", or "clienterr"/"exc" when paginating      *)
(* raises; a listed metric carries the dimensions the code reads           *)
(* (objectname, instance, path; "" when the dimension is absent) and the   *)
(* outcome of querying its data.                                           *)
(***************************************************************************)
Metric(obj, inst, path, o) ==
    [objectname |-> obj, instance |-> inst, path |-> path, data |-> o]
Listing(ms) == [list |-> "ok", metrics |-> ms]
NotListed == Listing(<<>>)
ListClientErr == [list |-> "clienterr", metrics |-> <<>>]
ListOtherExc == [list |-> "exc", metrics |-> <<>>]

(* x.startswith('/usr'), x.startswith('/hana') and ':' in x, tabulated     *)
(* over the dimension values the model draws from.                         *)
StartsWithUsr(p) == p \in {"/usr", "/usr/local", "/usrlocal"}
StartsWithHana(p) == p \in {"/hana", "/hana/data"}
HasColon(x) == x \in {"C:", "D:"}

(* The order of drive letters under sort(key=path). *)
DriveRank(x) == IF x = "C:" THEN 1 ELSE IF x = "D:" THEN 2 ELSE 3

(* {} and the dicts get_memory_metric returns: used_percent, and whether   *)
(* the key 'note' is present.  {}.get('used_percent') is None.             *)
EmptyDict == [used_percent |-> PyNone, note |-> FALSE]
MemDict(x, n) == [used_percent |-> x, note |-> n]

(* The loop "for metric in page['Metrics']: val = get_current_metric_value *)
(* (...); if val is not None: return": the first value found, None when    *)
(* the loop ends without one.  obj # "" keeps only metrics whose           *)
(* objectname is obj (line 253).                                           *)
RECURSIVE FirstValue(_, _)
FirstValue(ms, obj) ==
    IF ms = <<>> THEN [raised |-> FALSE, val |-> PyNone]
    ELSE LET m == Head(ms)
         IN  IF obj # "" /\ m.objectname # obj THEN FirstValue(Tail(ms), obj)
             ELSE LET r == get_current_metric_value(m.data)
                  IN  IF r.raised \/ r.val # PyNone THEN r
                      ELSE FirstValue(Tail(ms), obj)

(* One "try: for page in paginate(..) .. except ClientError" stage.  *)
MemStage(l, obj) ==
    IF l.list = "exc" THEN [raised |-> TRUE, val |-> PyNone]
    ELSE IF l.list = "clienterr" THEN [raised |-> FALSE, val |-> PyNone]
    ELSE FirstValue(l.metrics, obj)

(* get_memory_metric: mem_used_percent, then Memory % Committed Bytes In   *)
(* Use, then Memory Available Mbytes (which yields 'NA' and a note), then  *)
(* 'NA'.  [raised, mem].                                                   *)
get_memory_metric(c) ==
    LET lin == MemStage(c.mem_linux, "")
        win == MemStage(c.mem_win, "Memory")
        alt == MemStage(c.mem_alt, "")
    IN  IF lin.raised THEN [raised |-> TRUE, mem |-> EmptyDict]
        ELSE IF lin.val # PyNone THEN [raised |-> FALSE, mem |-> MemDict(lin.val, FALSE)]
        ELSE IF win.raised THEN [raised |-> TRUE, mem |-> EmptyDict]
        ELSE IF win.val # PyNone THEN [raised |-> FALSE, mem |-> MemDict(win.val, FALSE)]
        ELSE IF alt.raised THEN [raised |-> TRUE, mem |-> EmptyDict]
        ELSE IF alt.val # PyNone THEN [raised |-> FALSE, mem |-> MemDict(PyNA, TRUE)]
        ELSE [raised |-> FALSE, mem |-> MemDict(PyNA, FALSE)]

(* A disk entry of the metrics record. *)
Disk(p, x) == [path |-> p, used_percent |-> x]

(* get_linux_disk_dimensions: the listed disk_used_percent metrics whose   *)
(* path passes line 145; [] on a ClientError.  [raised, dims].             *)
PathKept(p) == p # "" /\ (p = "/" \/ StartsWithUsr(p) \/ StartsWithHana(p))

get_linux_disk_dimensions(c) ==
    IF c.disk.list = "exc" THEN [raised |-> TRUE, dims |-> <<>>]
    ELSE IF c.disk.list = "clienterr" THEN [raised |-> FALSE, dims |-> <<>>]
    ELSE [raised |-> FALSE, dims |-> SelectSeq(c.disk.metrics, LAMBDA m : PathKept(m.path))]

(* Lines 336-339: one disk entry per kept dimension set, 'NA' when the     *)
(* query has no value.  [raised, disks]; the entries appended before a     *)
(* query raises stay in the record.                                        *)
RECURSIVE LinuxDisks(_)
LinuxDisks(dims) ==
    IF dims = <<>> THEN [raised |-> FALSE, disks |-> <<>>]
    ELSE LET m == Head(dims)
             r == get_current_metric_value(m.data)
             rest == LinuxDisks(Tail(dims))
             path == IF m.path = "" THEN "N/A" ELSE m.path
         IN  IF r.raised THEN [raised |-> TRUE, disks |-> <<>>]
             ELSE [raised |-> rest.raised,
                   disks |-> <<Disk(path, IF r.val # PyNone THEN r.val ELSE PyNA)>>
                             \o rest.disks]

(* Lines 191-199: the used reading of a Windows drive from its free one. *)
WindowsUsed(free) == Pct(100) - free

(* disks.sort(key=lambda x: x['path']): a stable insertion sort. *)
RECURSIVE InsertDisk(_, _)
InsertDisk(d, s) ==
    IF s = <<>> THEN <<d>>
    ELSE IF DriveRank(d.path) < DriveRank(Head(s).path) THEN <<d>> \o s
    ELSE <<Head(s)>> \o InsertDisk(d, Tail(s))

RECURSIVE SortDisks(_)
SortDisks(s) ==
    IF s = <<>> THEN <<>>
    ELSE InsertDisk(Head(s), SortDisks(Tail(s)))

(* The loop of get_windows_disks_all over the listed metrics, with the set *)
(* of drives already processed.  [raised, disks].                          *)
RECURSIVE WindowsScan(_, _)
WindowsScan(ms, processed) ==
    IF ms = <<>> THEN [raised |-> FALSE, disks |-> <<>>]
    ELSE LET m == Head(ms)
             drive == IF m.instance # "" /\ HasColon(m.instance) /\ m.instance # "_Total"
                      THEN m.instance ELSE ""
         IN  IF drive # "" /\ drive \notin processed /\ m.objectname = "LogicalDisk"
             THEN LET r == get_current_metric_value(m.data)
                      rest == WindowsScan(Tail(ms), processed \cup {drive})
                  IN  IF r.raised \/ rest.raised THEN [raised |-> TRUE, disks |-> <<>>]
                      ELSE [raised |-> FALSE,
                            disks |-> <<Disk(drive, IF r.val # PyNone
                                                    THEN Num(WindowsUsed(r.val.v))
                                                    ELSE PyNA)>> \o rest.disks]
             ELSE WindowsScan(Tail(ms), processed)

get_windows_disks_all(c) ==
    IF c.ldisk.list = "exc" THEN [raised |-> TRUE, disks |-> <<>>]
    ELSE IF c.ldisk.list = "clienterr" THEN [raised |-> FALSE, disks |-> <<>>]
    ELSE LET r == WindowsScan(c.ldisk.metrics, {})
         IN  [raised |-> r.raised, disks |-> SortDisks(r.disks)]

(* A faulty variant: an exception of the probe counts as Windows. *)
is_windows_OnError(c) == c.ldisk.list # "ok" \/ c.ldisk.metrics # <<>>

(* Lines 310-324: the platform probe; any exception leaves is_windows False. *)
is_windows(c) == c.ldisk.list = "ok" /\ c.ldisk.metrics # <<>>

(***************************************************************************)
(* get_instance_metrics.  The metrics record is                            *)
(*   [instance_id, cpu, memory, disks, error]                              *)
(* with error = "" when the dict has no 'error' key.  An exception in the  *)
(* try block (line 343) keeps what was collected so far and sets 'error'.  *)
(***************************************************************************)
NoError == ""
Rec(iid, cpu, mem, disks, err) ==
    [instance_id |-> iid, cpu |-> cpu, memory |-> mem, disks |-> disks, error |-> err]

get_instance_metrics(iid, c) ==
    LET cpu == get_current_metric_value(c.cpu)
        mem == get_memory_metric(c)
        dsk == IF is_windows(c) THEN get_windows_disks_all(c)
               ELSE LET l == get_linux_disk_dimensions(c)
                    IN  IF l.raised THEN [raised |-> TRUE, disks |-> <<>>]
                        ELSE LinuxDisks(l.dims)
    IN  IF cpu.raised
        THEN Rec(iid, PyNone, EmptyDict, <<>>, "Failed to get metrics: cpu")
        ELSE IF mem.raised
        THEN Rec(iid, cpu.val, EmptyDict, <<>>, "Failed to get metrics: memory")
        ELSE IF dsk.raised
        THEN Rec(iid, cpu.val, mem.mem, dsk.disks, "Failed to get metrics: disk")
        ELSE Rec(iid, cpu.val, mem.mem, dsk.disks, NoError)

(***************************************************************************)
(* The requests get_instance_metrics sends to CloudWatch, in order: a      *)
(* request is [by, op, name], the function that sends it, "list" for       *)
(* list_metrics or "data" for get_metric_data, and the metric name.  A     *)
(* request that raises is the last one sent by its try block.              *)
(***************************************************************************)
Req(by, op, name) == [by |-> by, op |-> op, name |-> name]

(* The get_metric_data requests of the loop FirstValue models. *)
RECURSIVE ScanRequests(_, _, _)
ScanRequests(ms, obj, name) ==
    IF ms = <<>> THEN <<>>
    ELSE IF obj # "" /\ Head(ms).objectname # obj THEN ScanRequests(Tail(ms), obj, name)
    ELSE <<Req("get_memory_metric", "data", name)>>
         \o (IF get_current_metric_value(Head(ms).data).raised
                 \/ get_current_metric_value(Head(ms).data).val # PyNone
              THEN <<>>
              ELSE ScanRequests(Tail(ms), obj, name))

StageRequests(l, obj, name) ==
    <<Req("get_memory_metric", "list", name)>>
    \o (IF l.list = "ok" THEN ScanRequests(l.metrics, obj, name) ELSE <<>>)

(* get_memory_metric: each stage is entered when the one before returned   *)
(* nothing and did not raise.                                              *)
MemoryRequests(c) ==
    LET lin == MemStage(c.mem_linux, "")
        win == MemStage(c.mem_win, "Memory")
    IN  StageRequests(c.mem_linux, "", "mem_used_percent")
        \o (IF lin.raised \/ lin.val # PyNone THEN <<>>
             ELSE StageRequests(c.mem_win, "Memory", "Memory % Committed Bytes In Use")
                  \o (IF win.raised \/ win.val # PyNone THEN <<>>
                       ELSE StageRequests(c.mem_alt, "", "Memory Available Mbytes")))

(* Lines 313-322: the probe. *)
ProbeRequest == Req("get_instance_metrics", "list", "LogicalDisk % Free Space")

(* get_windows_disks_all: the listing, then one query per drive taken up. *)
RECURSIVE WindowsScanRequests(_, _)
WindowsScanRequests(ms, processed) ==
    IF ms = <<>> THEN <<>>
    ELSE LET m == Head(ms)
             drive == IF m.instance # "" /\ HasColon(m.instance) /\ m.instance # "_Total"
                      THEN m.instance ELSE ""
         IN  IF drive # "" /\ drive \notin processed /\ m.objectname = "LogicalDisk"
             THEN <<Req("get_windows_disks_all", "data", "LogicalDisk % Free Space")>>
                  \o (IF get_current_metric_value(m.data).raised THEN <<>>
                       ELSE WindowsScanRequests(Tail(ms), processed \cup {drive}))
             ELSE WindowsScanRequests(Tail(ms), processed)

(* Lines 336-338: one query per kept dimension set. *)
RECURSIVE LinuxDiskRequests(_)
LinuxDiskRequests(dims) ==
    IF dims = <<>> THEN <<>>
    ELSE <<Req("get_instance_metrics", "data", "disk_used_percent")>>
         \o (IF get_current_metric_value(Head(dims).data).raised THEN <<>>
              ELSE LinuxDiskRequests(Tail(dims)))

(* Lines 326-339: the branch on is_windows. *)
DiskRequests(c) ==
    IF is_windows(c)
    THEN <<Req("get_windows_disks_all", "list", "LogicalDisk % Free Space")>>
         \o (IF c.ldisk.list = "ok" THEN WindowsScanRequests(c.ldisk.metrics, {}) ELSE <<>>)
    ELSE <<Req("get_linux_disk_dimensions", "list", "disk_used_percent")>>
         \o LinuxDiskRequests(get_linux_disk_dimensions(c).dims)

(* Lines 294-341, in the order of the code. *)
Requests(c) ==
    <<Req("get_instance_metrics", "data", "CPUUtilization")>>
    \o (IF get_current_metric_value(c.cpu).raised THEN <<>>
         ELSE MemoryRequests(c)
              \o (IF get_memory_metric(c).raised THEN <<>>
                   ELSE <<ProbeRequest>> \o DiskRequests(c)))

(***************************************************************************)
(* The inventory.  describe_instances answers with the instances of the    *)
(* fleet, a function from instance ids to [state, os_type]; a Python dict  *)
(* keyed by instance id is a function on a subset of IDs, iterated in      *)
(* ascending id (the order of the response).                               *)
(***************************************************************************)
States == {"running", "stopped", "terminated"}
OsTypes == {"Windows", "Linux/UNIX", "SUSE Linux"}
InstanceInfo == [state : States, os_type : OsTypes]

Info(s, o) == [state |-> s, os_type |-> o]

(* The instances a fleet is drawn from. *)
InstanceKinds ==
    {Info("running", "Linux/UNIX"), Info("stopped", "Linux/UNIX"),
     Info("running", "Windows"), Info("stopped", "SUSE Linux"),
     Info("terminated", "Windows")}
EmptyMap == [i \in {} |-> 0]

(* "Windows" in os_type and "SUSE" in os_type, tabulated over OsTypes. *)
ContainsWindows(os) == os \in {"Windows"}
ContainsSUSE(os) == os \in {"SUSE Linux"}

Ascending(S) ==
    [k \in 1..Cardinality(S) |->
       CHOOSE x \in S : Cardinality({y \in S : y < x}) = k - 1]

(* describe_instances answers with reservations of instances, flattened    *)
(* here to the sequence of their entries [id, info] in the order the two   *)
(* nested loops visit them.  In the scenario "repeat" the answer lists     *)
(* every instance in two reservations.                                     *)
Entry(i, info) == [id |-> i, info |-> info]

Entries(e) ==
    LET ids == Ascending(DOMAIN e)
    IN  [k \in 1..Len(ids) |-> Entry(ids[k], e[ids[k]])]

DescribeInstances(sc, e) ==
    IF sc = "repeat" THEN Entries(e) \o Entries(e) ELSE Entries(e)

(* instances = {}; instances[instance_id] = {...} for each entry in turn:  *)
(* a later entry with the same id replaces the earlier one.                *)
DictOf(r) ==
    [i \in {r[k].id : k \in 1..Len(r)} |->
       r[CHOOSE k \in 1..Len(r) :
           r[k].id = i /\ \A j \in (k + 1)..Len(r) : r[j].id # i].info]

(* get_all_instances / get_running_instances over the answer r computed    *)
(* from the fleet; the Filters of line 44 keep the running entries.        *)
get_all_instances(r) == DictOf(r)

(* A faulty variant: the state filter of line 44 is dropped. *)
get_running_instances_NoFilter(r) == DictOf(r)

get_running_instances(r) ==
    DictOf(SelectSeq(r, LAMBDA x : x.info.state = "running"))

(***************************************************************************)
(* create_summary_section: the platform counts (lines 416-484).            *)
(***************************************************************************)
Platform(os) ==
    IF ContainsWindows(os) THEN "Windows"
    ELSE IF ContainsSUSE(os) THEN "SUSE Linux"
    ELSE "Linux/UNIX"

PlatformRows == {"Windows", "Linux/UNIX", "SUSE Linux"}

CountRunning(all, p) ==
    Cardinality({i \in DOMAIN all : Platform(all[i].os_type) = p /\ all[i].state = "running"})

(* A faulty variant: only the state 'stopped' counts as stopped. *)
CountStopped_OnlyStopped(all, p) ==
    Cardinality({i \in DOMAIN all : Platform(all[i].os_type) = p /\ all[i].state = "stopped"})

CountStopped(all, p) ==
    Cardinality({i \in DOMAIN all : Platform(all[i].os_type) = p /\ all[i].state # "running"})

SummaryRow(r, s) == [running |-> r, stopped |-> s, total |-> r + s]

SummaryTable(all) ==
    LET wr == CountRunning(all, "Windows")
        ws == CountStopped(all, "Windows")
        lr == CountRunning(all, "Linux/UNIX")
        ls == CountStopped(all, "Linux/UNIX")
        sr == CountRunning(all, "SUSE Linux")
        ss == CountStopped(all, "SUSE Linux")
    IN  [rows |-> [p \in PlatformRows |->
                     IF p = "Windows" THEN SummaryRow(wr, ws)
                     ELSE IF p = "Linux/UNIX" THEN SummaryRow(lr, ls)
                     ELSE SummaryRow(sr, ss)],
         total |-> SummaryRow(wr + lr + sr, ws + ls + ss)]

(***************************************************************************)
(* create_summary_section: the alerts (lines 491-542).  An alert is        *)
(* [name, metric, path, utilization]; utilization is the value formatted   *)
(* to one decimal place.                                                   *)
(***************************************************************************)
alert_tier(x) ==
    IF x >= Pct(50)
    THEN IF x > Pct(60) THEN "red" ELSE "yellow"
    ELSE "none"

(* The readings of a record in the order they are checked: CPU, memory,    *)
(* then each disk.                                                         *)
ReadingsOf(data) ==
    <<[metric |-> "CPU", path |-> "", value |-> data.cpu],
      [metric |-> "Memory", path |-> "", value |-> data.memory.used_percent]>>
    \o [k \in 1..Len(data.disks) |->
          [metric |-> "Disk", path |-> data.disks[k].path,
           value |-> data.disks[k].used_percent]]

Alert(name, r) ==
    [name |-> name, metric |-> r.metric, path |-> r.path,
     utilization |-> Round1(r.value.v)]

(* The alerts of tier t that one record appends. *)
RecordAlerts(data, t) ==
    IF data.error # NoError THEN <<>>
    ELSE LET hit == SelectSeq(ReadingsOf(data),
                              LAMBDA r : IsNumber(r.value) /\ alert_tier(r.value.v) = t)
         IN  [k \in 1..Len(hit) |-> Alert(data.instance_id, hit[k])]

RECURSIVE CollectAlerts(_, _)
CollectAlerts(md, t) ==
    IF md = <<>> THEN <<>>
    ELSE RecordAlerts(Head(md), t) \o CollectAlerts(Tail(md), t)

(***************************************************************************)
(* create_excel_report: the detail section (lines 641-746).                *)
(***************************************************************************)
apply_conditional_formatting(used) ==
    IF used > Pct(60) THEN "red"
    ELSE IF used > Pct(50) THEN "yellow"
    ELSE "none"

(* A faulty variant: round(100 - used), to a whole percent. *)
FreeCell_Whole(used) == ((Pct(100) - used + 50) \div 100) * 100

(* round(100 - used, 1), used being the rounded Used % cell. *)
FreeCell(used) == Round1(Pct(100) - used)

(* One row of the metrics table: Metric Type, Path, Used %, Free % and the *)
(* fill of the Used % cell.                                                *)
Row(type, path, x) ==
    IF IsNumber(x)
    THEN LET used == Round1(x.v)
         IN  [type |-> type, path |-> path, used |-> Num(used),
              free |-> Num(FreeCell(used)),
              fill |-> apply_conditional_formatting(used)]
    ELSE [type |-> type, path |-> path, used |-> PyNA, free |-> PyNA, fill |-> "none"]

TableRows(data) ==
    <<Row("CPU", "", data.cpu),
      Row("Memory", IF data.memory.note THEN "note" ELSE "", data.memory.used_percent)>>
    \o (IF data.disks # <<>>
        THEN [k \in 1..Len(data.disks) |->
                Row("Disk", data.disks[k].path, data.disks[k].used_percent)]
        ELSE <<Row("Disk", "No disk metrics available", PyNA)>>)

(* A faulty variant: the instance id is not compared. *)
FindData_Any(md, iid) == md

(* next((d for d in metrics_data if d['instance_id'] == instance_id), None) *)
(* as the sequence of matches: empty for None, else the match is its head. *)
FindData(md, iid) == SelectSeq(md, LAMBDA d : d.instance_id = iid)

(* The detail block of one instance: kind "table" with rows, or kind       *)
(* "text" with the "Metrics: Not available (msg)" line.                    *)
Block(iid, info, kind, rows, msg) ==
    [instance_id |-> iid, state |-> info.state, kind |-> kind, rows |-> rows, msg |-> msg]

(* A faulty variant: the record is looked up before the state is tested. *)
DetailBlock_DataFirst(iid, info, md) ==
    LET found == FindData(md, iid)
    IN  IF found # <<>> /\ Head(found).error = NoError
        THEN Block(iid, info, "table", TableRows(Head(found)), "")
        ELSE IF info.state = "running"
        THEN Block(iid, info, "text", <<>>,
                   IF found # <<>> THEN Head(found).error ELSE "No metrics data")
        ELSE Block(iid, info, "text", <<>>, "instance stopped")

DetailBlock(iid, info, md) ==
    IF info.state = "running"
    THEN LET found == FindData(md, iid)
         IN  IF found # <<>> /\ Head(found).error = NoError
             THEN Block(iid, info, "table", TableRows(Head(found)), "")
             ELSE Block(iid, info, "text", <<>>,
                        IF found # <<>> THEN Head(found).error ELSE "No metrics data")
    ELSE Block(iid, info, "text", <<>>, "instance stopped")

(* A faulty variant: the fetched instances are rendered from metrics_data  *)
(* and then every instance of the inventory is rendered again.             *)
DetailSection_RecordsFirst(md, all) ==
    LET ids == Ascending(DOMAIN all)
        fetched == SelectSeq(md, LAMBDA d : d.instance_id \in DOMAIN all)
    IN  [k \in 1..Len(fetched) |->
           DetailBlock(fetched[k].instance_id, all[fetched[k].instance_id], md)]
        \o [k \in 1..Len(ids) |-> DetailBlock(ids[k], all[ids[k]], md)]

(* Line 642: one block per item of the dict all_instances. *)
DetailSection(md, all) ==
    LET ids == Ascending(DOMAIN all)
    IN  [k \in 1..Len(ids) |-> DetailBlock(ids[k], all[ids[k]], md)]

create_excel_report(md, all, account) ==
    [account |-> account,
     summary |-> SummaryTable(all),
     yellow_alerts |-> CollectAlerts(md, "yellow"),
     red_alerts |-> CollectAlerts(md, "red"),
     blocks |-> DetailSection(md, all)]

(***************************************************************************)
(* What CloudWatch answers for one instance: the outcome of the            *)
(* CPUUtilization query, the listings of the five CWAgent metric names the *)
(* code lists, and whether the worker itself raises outside the try block  *)
(* of get_instance_metrics (so that future.result() raises).               *)
(***************************************************************************)
CwAnswer(cpu, ml, mw, ma, ld, d, crash) ==
    [cpu |-> cpu, mem_linux |-> ml, mem_win |-> mw, mem_alt |-> ma,
     ldisk |-> ld, disk |-> d, crash |-> crash]

One(o) == Listing(<<Metric("", "", "", o)>>)
OneMem(o) == Listing(<<Metric("Memory", "", "", o)>>)
OnePath(p, o) == Listing(<<Metric("", "", p, o)>>)
Drive(x, o) == Metric("LogicalDisk", x, "", o)

Outcomes == {Val(r) : r \in Readings} \cup {NoData, ClientErr, OtherExc}

(* The answers drawn for the instances of a fleet: readings in all three   *)
(* tiers, a query that raises inside get_instance_metrics, and a worker    *)
(* that raises.                                                            *)
FleetAnswers ==
    { CwAnswer(Val(6004), One(Val(5004)), NotListed, NotListed, NotListed,
               OnePath("/", Val(1230)), FALSE),
      CwAnswer(OtherExc, NotListed, NotListed, NotListed, NotListed, NotListed, FALSE),
      CwAnswer(Val(1230), NotListed, NotListed, NotListed, NotListed, NotListed, TRUE) }

(* The answer drawn for the instances of a fleet larger than the pool. *)
PoolAnswers ==
    { CwAnswer(Val(6004), One(Val(5004)), NotListed, NotListed, NotListed,
               OnePath("/", Val(1230)), FALSE) }

(* The answers drawn for a single instance: every outcome of every query,  *)
(* one query family varied at a time.                                      *)
MemListings ==
    {NotListed, ListClientErr, ListOtherExc} \cup {One(o) : o \in Outcomes}

DiskPaths == {"/", "/usr", "/hana", "/usrlocal", "/hana/data", "/data", ""}

DiskListings ==
    {NotListed, ListClientErr, ListOtherExc}
    \cup {OnePath(p, o) : p \in DiskPaths, o \in Outcomes}
    \cup {Listing(<<Metric("", "", "/", Val(a)), Metric("", "", "/usr", o)>>) :
            a \in {5000, 6004}, o \in Outcomes}

DriveListings ==
    {Listing(<<Drive("C:", o)>>) : o \in Outcomes}
    \cup {Listing(<<Drive("D:", Val(a)), Drive("_Total", Val(5000)), Drive("C:", o)>>) :
            a \in {3975, 4000}, o \in Outcomes}
    \cup {Listing(<<Drive("C:", Val(a)), Drive("C:", Val(0)),
                    Metric("Other", "D:", "", Val(0))>>) : a \in Readings}

SingleAnswers ==
    {CwAnswer(c, m, NotListed, NotListed, NotListed, OnePath("/", Val(6000)), FALSE) :
        c \in Outcomes, m \in MemListings}
    \cup {CwAnswer(Val(c), One(Val(5004)), NotListed, NotListed, NotListed, d, FALSE) :
        c \in {1230, 6025}, d \in DiskListings}
    \cup {CwAnswer(Val(6004), ml, mw, ma, NotListed, NotListed, FALSE) :
        ml \in {NotListed, ListClientErr, One(NoData), One(ClientErr)},
        mw \in {NotListed, ListClientErr, ListOtherExc,
                Listing(<<Metric("Other", "", "", Val(6004))>>)}
               \cup {OneMem(o) : o \in Outcomes},
        ma \in {NotListed, ListClientErr, ListOtherExc, One(Val(1230)), One(NoData)}}
    \cup {CwAnswer(c, NotListed, OneMem(Val(5000)), NotListed, ld, OnePath("/", Val(6004)), FALSE) :
        c \in {Val(5004), NoData}, ld \in DriveListings \cup {ListClientErr, ListOtherExc}}
    \cup {CwAnswer(c, m, NotListed, NotListed, NotListed, d, FALSE) :
        c \in {NoData, ClientErr},
        m \in {NotListed, ListClientErr, One(NoData)},
        d \in {NotListed, ListClientErr, OnePath("/", NoData), OnePath("/usr", ClientErr)}}
    \cup {CwAnswer(Val(1230), NotListed, NotListed, NotListed, NotListed, NotListed, TRUE)}

(***************************************************************************)
(* The state of one invocation of lambda_handler.                          *)
(***************************************************************************)
VARIABLES
    scenario,           \* "fleet", "single", "repeat" or "pool": the answers drawn
    ec2,                \* the fleet: instance id -> [state, os_type]
    pc,                 \* the handler's next step
    account_number,     \* "" until get_account_info returns
    all_instances,      \* the dict of line 769
    running_instances,  \* the dict of line 773
    fut,                \* instance id -> its future [st, raised, rec]
    cw,                 \* instance id -> the answer CloudWatch gave its fetch
    metrics_data,       \* the list of line 777
    report,             \* <<>>, or <<the rendered report>>
    uploads,            \* objects stored by s3.put_object
    response,           \* what the handler returned
    failed,             \* the step whose exception reached line 804, or ""
    calls               \* step -> how many times it was invoked

vars == <<scenario, ec2, pc, account_number, all_instances,
          running_instances, fut, cw, metrics_data, report, uploads,
          response, failed, calls>>

Steps == {"get_account_info", "get_all_instances", "get_running_instances",
          "create_excel_report", "put_object"}

NoFuture(i) == [st |-> "none", raised |-> FALSE,
                rec |-> Rec(i, PyNone, EmptyDict, <<>>, NoError)]

NoResponse == [kind |-> "none", statusCode |-> 0, body |-> ""]

CwAnswers ==
    IF scenario = "single" THEN SingleAnswers
    ELSE IF scenario = "pool" THEN PoolAnswers
    ELSE FleetAnswers

(* The fleets: instances 1..k, for every k up to NumInstances. *)
Fleets == UNION {[1..k -> InstanceKinds] : k \in 0..NumInstances}

InitHandlerFor(ids) ==
    /\ pc = "get_account_info"
    /\ account_number = ""
    /\ all_instances = EmptyMap
    /\ running_instances = EmptyMap
    /\ fut = [i \in ids |-> NoFuture(i)]
    /\ cw = EmptyMap
    /\ metrics_data = <<>>
    /\ report = <<>>
    /\ uploads = 0
    /\ response = NoResponse
    /\ failed = ""
    /\ calls = [s \in Steps |-> 0]

InitHandler == InitHandlerFor(IDs)

Init ==
    /\ scenario = "fleet"
    /\ ec2 \in Fleets
    /\ InitHandler

InitSingle ==
    /\ scenario = "single"
    /\ ec2 = (1 :> Info("running", "Linux/UNIX"))
    /\ InitHandler

(* A faulty variant: the except clause reports success. *)
TopLevelExcept_Ok(text) == [kind |-> "returned", statusCode |-> 200, body |-> text]

(* A faulty variant: the exception leaves the handler. *)
TopLevelExcept_Propagate(text) == [kind |-> "raised", statusCode |-> 0, body |-> text]

(***************************************************************************)
(* Lines 804-806: the top-level except returns the failure pair.  The body *)
(* is modelled by the exception's text.                                    *)
(***************************************************************************)
TopLevelExcept(text) == [kind |-> "returned", statusCode |-> 500, body |-> text]

Success == [kind |-> "returned", statusCode |-> 200, body |-> "Report uploaded"]

(* Step s raises an exception that nothing below line 804 catches. *)
Raise(s) ==
    /\ pc' = "done"
    /\ failed' = s
    /\ response' = TopLevelExcept(s)

Called(s) == calls' = [calls EXCEPT ![s] = @ + 1]

(* Line 765.  get_account_info returns the account number, or 'Unknown'    *)
(* on a ClientError: either way a string, modelled by one value.           *)
GetAccountInfo ==
    /\ pc = "get_account_info"
    /\ Called("get_account_info")
    /\ \/ /\ account_number' = "account"
          /\ pc' = "get_all_instances"
          /\ UNCHANGED <<failed, response>>
       \/ /\ Raise("get_account_info")
          /\ UNCHANGED account_number
    /\ UNCHANGED <<scenario, ec2, all_instances, running_instances,
                   fut, cw, metrics_data, report, uploads>>

(* Line 769. *)
GetAllInstances ==
    /\ pc = "get_all_instances"
    /\ Called("get_all_instances")
    /\ \/ /\ all_instances' = get_all_instances(DescribeInstances(scenario, ec2))
          /\ pc' = "get_running_instances"
          /\ UNCHANGED <<failed, response>>
       \/ /\ Raise("get_all_instances")
          /\ UNCHANGED all_instances
    /\ UNCHANGED <<scenario, ec2, account_number, running_instances,
                   fut, cw, metrics_data, report, uploads>>

(* An instance of the fleet is stopped or started between the two          *)
(* inventory queries (a change at any other time is one the handler cannot *)
(* observe).                                                               *)
EnvChange(i) ==
    /\ pc = "get_running_instances"
    /\ i \in DOMAIN ec2
    /\ ec2[i].state \in {"running", "stopped"}
    /\ ec2' = [ec2 EXCEPT ![i].state = IF @ = "running" THEN "stopped" ELSE "running"]
    /\ UNCHANGED <<scenario, pc, account_number, all_instances, running_instances,
                   fut, cw, metrics_data, report, uploads, response, failed, calls>>

(* Line 773. *)
GetRunningInstances ==
    /\ pc = "get_running_instances"
    /\ Called("get_running_instances")
    /\ \/ /\ running_instances' = get_running_instances(DescribeInstances(scenario, ec2))
          /\ pc' = "submit"
          /\ UNCHANGED <<failed, response>>
       \/ /\ Raise("get_running_instances")
          /\ UNCHANGED running_instances
    /\ UNCHANGED <<scenario, ec2, account_number, all_instances,
                   fut, cw, metrics_data, report, uploads>>

(* Line 779: one future per key of running_instances. *)
Submit ==
    /\ pc = "submit"
    /\ fut' = [i \in DOMAIN fut |-> IF i \in DOMAIN running_instances
                             THEN [fut[i] EXCEPT !.st = "queued"] ELSE fut[i]]
    /\ pc' = "collect"
    /\ UNCHANGED <<scenario, ec2, account_number, all_instances,
                   running_instances, cw, metrics_data, report, uploads,
                   response, failed, calls>>

InProgress == {i \in DOMAIN fut : fut[i].st = "running"}

(* A faulty variant: a thread is started for every submitted call. *)
HasFreeThread_Always(busy) == TRUE

(* ThreadPoolExecutor(max_workers=10): a call is taken up only by one of   *)
(* at most max_workers threads, each running one call at a time.           *)
HasFreeThread(busy) == Cardinality(busy) < MaxWorkers

(* When CloudWatch lets the fetch of instance i complete: at any time; in  *)
(* the scenario "pool" the fetches complete in the order they started,     *)
(* each after the handler has collected the one before.                    *)
MayFinish(i) ==
    scenario = "pool" => \A j \in DOMAIN fut : j < i => fut[j].st \in {"none", "collected"}

(* A pool thread takes the next call of get_instance_metrics from the      *)
(* pool's work queue, which holds the calls in the order of submission.    *)
WorkerStart(i) ==
    /\ fut[i].st = "queued"
    /\ \A j \in DOMAIN fut : j < i => fut[j].st # "queued"
    /\ HasFreeThread(InProgress)
    /\ fut' = [fut EXCEPT ![i].st = "running"]
    /\ UNCHANGED <<scenario, ec2, pc, account_number, all_instances,
                   running_instances, cw, metrics_data, report, uploads,
                   response, failed, calls>>

(* The call returns its metrics record, or raises. *)
WorkerFinish(i) ==
    /\ fut[i].st = "running"
    /\ MayFinish(i)
    /\ \E a \in CwAnswers :
          /\ cw' = cw @@ (i :> a)
          /\ fut' = [fut EXCEPT ![i] =
                        [st |-> "finished", raised |-> a.crash,
                         rec |-> IF a.crash THEN @.rec ELSE get_instance_metrics(i, a)]]
    /\ UNCHANGED <<scenario, ec2, pc, account_number, all_instances,
                   running_instances, metrics_data, report, uploads,
                   response, failed, calls>>

(* A faulty variant: the exception of future.result() is not caught. *)
HandleFuture_Reraise(iid, f) ==
    IF f.raised
    THEN [append |-> <<>>, escaped |-> TRUE]
    ELSE [append |-> <<f.rec>>, escaped |-> FALSE]

(* Lines 781-789: what the loop body does with a completed future:         *)
(* [append, escaped], the records appended to metrics_data and whether an  *)
(* exception leaves the loop.                                              *)
HandleFuture(iid, f) ==
    IF f.raised
    THEN [append |-> <<Rec(iid, PyNone, EmptyDict, <<>>, "Failed: worker")>>,
          escaped |-> FALSE]
    ELSE [append |-> <<f.rec>>, escaped |-> FALSE]

(* as_completed yields a finished future. *)
Collect(i) ==
    /\ pc = "collect"
    /\ fut[i].st = "finished"
    /\ LET h == HandleFuture(i, fut[i])
       IN  /\ metrics_data' = metrics_data \o h.append
           /\ IF h.escaped
              THEN Raise("future.result")
              ELSE UNCHANGED <<pc, failed, response>>
    /\ fut' = [fut EXCEPT ![i].st = "collected"]
    /\ UNCHANGED <<scenario, ec2, account_number, all_instances,
                   running_instances, cw, report, uploads, calls>>

(* A faulty variant: the handler goes on without waiting for the pool. *)
PoolDrained_NoWait == TRUE

(* as_completed has yielded every future and the with-block of line 778    *)
(* has shut the executor down: no call is queued, running or uncollected.  *)
PoolDrained == \A i \in DOMAIN fut : fut[i].st \in {"none", "collected"}

(* as_completed is exhausted and the executor has shut down. *)
EndCollect ==
    /\ pc = "collect"
    /\ PoolDrained
    /\ pc' = "create_excel_report"
    /\ UNCHANGED <<scenario, ec2, account_number, all_instances,
                   running_instances, fut, cw, metrics_data, report, uploads,
                   response, failed, calls>>

(* Line 793. *)
CreateExcelReport ==
    /\ pc = "create_excel_report"
    /\ Called("create_excel_report")
    /\ \/ /\ report' = <<create_excel_report(metrics_data, all_instances, account_number)>>
          /\ pc' = "put_object"
          /\ UNCHANGED <<failed, response>>
       \/ /\ Raise("create_excel_report")
          /\ UNCHANGED report
    /\ UNCHANGED <<scenario, ec2, account_number, all_instances,
                   running_instances, fut, cw, metrics_data, uploads>>

(* Lines 795-802. *)
PutObject ==
    /\ pc = "put_object"
    /\ Called("put_object")
    /\ \/ /\ uploads' = uploads + 1
          /\ pc' = "done"
          /\ response' = Success
          /\ UNCHANGED failed
       \/ /\ Raise("put_object")
          /\ UNCHANGED uploads
    /\ UNCHANGED <<scenario, ec2, account_number, all_instances,
                   running_instances, fut, cw, metrics_data, report>>

Handler ==
    \/ GetAccountInfo
    \/ GetAllInstances
    \/ GetRunningInstances
    \/ Submit
    \/ \E i \in DOMAIN fut : Collect(i)
    \/ EndCollect
    \/ CreateExcelReport
    \/ PutObject

Workers == \E i \in DOMAIN fut : WorkerStart(i) \/ WorkerFinish(i)

Next ==
    \/ Handler
    \/ Workers
    \/ \E i \in DOMAIN fut : EnvChange(i)

Spec == Init /\ [][Next]_vars

SpecSingle == InitSingle /\ [][Next]_vars

(* Fleets whose inventory answers list every instance twice. *)
InitRepeat ==
    /\ scenario = "repeat"
    /\ ec2 \in Fleets
    /\ InitHandler

SpecRepeat == InitRepeat /\ [][Next]_vars

(* The pool runs every submitted call and the handler runs to its return. *)
Fairness == WF_vars(Handler) /\ WF_vars(Workers)

(* Fleets whose instances are all running Linux instances. *)
InitRunning ==
    /\ scenario = "fleet"
    /\ ec2 \in UNION {[1..k -> {Info("running", "Linux/UNIX")}] : k \in 0..NumInstances}
    /\ InitHandler

FairSpec == InitRunning /\ [][Next]_vars /\ Fairness

(* Fleets of up to PoolInstances running instances that do not change      *)
(* during the run.                                                         *)
InitPool ==
    /\ scenario = "pool"
    /\ ec2 \in UNION {[1..k -> {Info("running", "Linux/UNIX")}] : k \in 0..PoolInstances}
    /\ InitHandlerFor(PoolIDs)

NextPool == Handler \/ Workers

PoolSpec == InitPool /\ [][NextPool]_vars /\ Fairness

(***************************************************************************)
(* Vocabulary of the properties.                                           *)
(***************************************************************************)
Rendered == report # <<>>
Rep == report[1]
Done == pc = "done"

(* The records of metrics_data for instance i. *)
RecordsOf(i) == SelectSeq(metrics_data, LAMBDA d : d.instance_id = i)

(* get_instance_metrics was started for instance i. *)
FetchStarted(i) == fut[i].st \in {"running", "finished", "collected"}

(* The detail blocks of the report for instance i. *)
BlocksOf(i) == SelectSeq(Rep.blocks, LAMBDA b : b.instance_id = i)

(* How many alerts of a list are about reading r of instance i. *)
AlertCount(alerts, i, r) ==
    Cardinality({k \in 1..Len(alerts) :
                   /\ alerts[k].name = i
                   /\ alerts[k].metric = r.metric
                   /\ alerts[k].path = r.path})

(* The numeric readings of the records without an error. *)
NumericReadings(data) ==
    IF data.error # NoError THEN <<>>
    ELSE SelectSeq(ReadingsOf(data), LAMBDA r : IsNumber(r.value))

(***************************************************************************)
(* C1.  Every numeric reading of a record (CPU, memory, each disk,         *)
(* independently) yields exactly one critical alert when it is above 60,   *)
(* exactly one warning alert when it is in (50, 60], and no alert when it  *)
(* is at most 50, a reading of exactly 50 included.                        *)
(***************************************************************************)
C1_TwoTierThresholds ==
    Rendered =>
      \A n \in 1..Len(metrics_data) :
        LET data == metrics_data[n]
            rs == NumericReadings(data)
        IN  \A k \in 1..Len(rs) :
              LET x == rs[k].value.v
                  red == AlertCount(Rep.red_alerts, data.instance_id, rs[k])
                  yellow == AlertCount(Rep.yellow_alerts, data.instance_id, rs[k])
              IN  /\ x > Pct(60) => red = 1 /\ yellow = 0
                  /\ (x > Pct(50) /\ x <= Pct(60)) => red = 0 /\ yellow = 1
                  /\ x <= Pct(50) => red = 0 /\ yellow = 0

(***************************************************************************)
(* C2.  No metric fetch is ever started for an instance whose state in     *)
(* all_instances (the state the report shows) is other than 'running',     *)
(* also when the fleet changes between the two inventory queries.          *)
(***************************************************************************)
C2_NoFetchForNonRunning ==
    \A i \in DOMAIN all_instances :
        all_instances[i].state # "running" => ~FetchStarted(i)

(***************************************************************************)
(* C3.  An instance whose state in the inventory is not 'running' gets the *)
(* "instance stopped" line and no metrics table in its detail block,       *)
(* whether or not metrics_data holds a record for it.                      *)
(***************************************************************************)
C3_StoppedShowsPlaceholder ==
    Rendered =>
      \A i \in DOMAIN all_instances :
        all_instances[i].state # "running" =>
          /\ Len(BlocksOf(i)) = 1
          /\ BlocksOf(i)[1].kind = "text"
          /\ BlocksOf(i)[1].msg = "instance stopped"
          /\ BlocksOf(i)[1].rows = <<>>

(* A rendered report with a block for each non-running kind of instance,  *)
(* one of them having a metrics record without an error.                   *)
C3_Witness ==
    /\ Rendered
    /\ \E i \in DOMAIN all_instances :
          /\ all_instances[i].state = "stopped"
          /\ RecordsOf(i) # <<>>
          /\ RecordsOf(i)[1].error = NoError
    /\ \E i \in DOMAIN all_instances : all_instances[i].state = "terminated"

(***************************************************************************)
(* C4.  A failed fetch touches nothing but its own instance: whatever the  *)
(* other fetches did, metrics_data holds for every fetched instance        *)
(* exactly the record its own CloudWatch answer gives, its detail block    *)
(* and its alerts are those of that record alone, and an instance whose    *)
(* fetch failed shows its own error text in place of the table and has no  *)
(* alerts.                                                                 *)
(***************************************************************************)
ExpectedRecord(i) ==
    IF cw[i].crash THEN Rec(i, PyNone, EmptyDict, <<>>, "Failed: worker")
    ELSE get_instance_metrics(i, cw[i])

AlertsNaming(alerts, i) == SelectSeq(alerts, LAMBDA a : a.name = i)

C4_FailureIsolated ==
    Rendered =>
      \A i \in DOMAIN cw :
        LET own == ExpectedRecord(i)
        IN  /\ RecordsOf(i) = <<own>>
            /\ AlertsNaming(Rep.red_alerts, i) = RecordAlerts(own, "red")
            /\ AlertsNaming(Rep.yellow_alerts, i) = RecordAlerts(own, "yellow")
            /\ own.error # NoError =>
                 /\ AlertsNaming(Rep.red_alerts, i) = <<>>
                 /\ AlertsNaming(Rep.yellow_alerts, i) = <<>>
            /\ i \in DOMAIN all_instances =>
                 /\ BlocksOf(i) = <<DetailBlock(i, all_instances[i], <<own>>)>>
                 /\ (all_instances[i].state = "running" /\ own.error # NoError) =>
                      /\ BlocksOf(i)[1].kind = "text"
                      /\ BlocksOf(i)[1].msg = own.error

(* A report for two running instances: the fetch collected first failed,   *)
(* the other produced alerts.                                              *)
C4_Witness ==
    /\ Rendered
    /\ Len(metrics_data) >= 2
    /\ metrics_data[1].error # NoError
    /\ \E i \in DOMAIN cw :
          /\ ExpectedRecord(i).error = NoError
          /\ i \in DOMAIN all_instances
          /\ all_instances[i].state = "running"
          /\ AlertsNaming(Rep.red_alerts, i) # <<>>
    /\ \E j \in DOMAIN all_instances :
          /\ j = metrics_data[1].instance_id
          /\ all_instances[j].state = "running"

(***************************************************************************)
(* C5.  A fetch that raises never aborts the run: the handler always       *)
(* reaches its return, and unless the account lookup, an inventory query,  *)
(* the rendering or the upload itself raised, it has rendered the report,  *)
(* uploaded it once and returned statusCode 200.                           *)
(***************************************************************************)
C5_FetchFailureNeverAborts ==
    /\ <>Done
    /\ [](Done /\ failed \notin Steps =>
            /\ response = Success
            /\ Rendered
            /\ uploads = 1)

(* A run that returned 200 although every one of its fetches failed, one   *)
(* inside get_instance_metrics and one by raising out of the worker.       *)
C5_Witness ==
    /\ Done
    /\ response.statusCode = 200
    /\ \E n \in 1..Len(metrics_data) : metrics_data[n].error = "Failed: worker"
    /\ \E n \in 1..Len(metrics_data) : metrics_data[n].error = "Failed to get metrics: cpu"

(***************************************************************************)
(* C6.  An absent or unsupported metric (no data point, not listed, or a   *)
(* ClientError) gives the sentinel None / 'NA' for that reading and no     *)
(* 'error' key, and the instance's block is a metrics table showing "NA".  *)
(***************************************************************************)
AbsentOutcome(o) == o \in {NoData, ClientErr}

(* Listing l yields no value from the metrics whose objectname is obj. *)
StageAbsent(l, obj) ==
    /\ l.list # "exc"
    /\ \A k \in 1..Len(l.metrics) :
          (obj = "" \/ l.metrics[k].objectname = obj) => AbsentOutcome(l.metrics[k].data)

ListingRaises(l) ==
    \/ l.list = "exc"
    \/ \E k \in 1..Len(l.metrics) : l.metrics[k].data = OtherExc

(* No query of answer a raises anything but a ClientError. *)
OnlyClientErrors(a) ==
    /\ ~a.crash
    /\ a.cpu # OtherExc
    /\ ~ListingRaises(a.mem_linux) /\ ~ListingRaises(a.mem_win)
    /\ ~ListingRaises(a.mem_alt) /\ ~ListingRaises(a.ldisk) /\ ~ListingRaises(a.disk)

C6_AbsentMetricIsSentinel ==
    Rendered =>
      \A i \in DOMAIN cw :
        OnlyClientErrors(cw[i]) =>
          LET a == cw[i]
              d == RecordsOf(i)[1]
              rows == BlocksOf(i)[1].rows
              shown == i \in DOMAIN all_instances /\ all_instances[i].state = "running"
              noDisk == IF is_windows(a) THEN StageAbsent(a.ldisk, "LogicalDisk")
                        ELSE StageAbsent(a.disk, "")
          IN  /\ Len(RecordsOf(i)) = 1
              /\ d.error = NoError
              /\ shown => BlocksOf(i)[1].kind = "table"
              /\ AbsentOutcome(a.cpu) =>
                   /\ d.cpu = PyNone
                   /\ shown => rows[1].used = PyNA /\ rows[1].free = PyNA
              /\ (StageAbsent(a.mem_linux, "") /\ StageAbsent(a.mem_win, "Memory")) =>
                   /\ d.memory.used_percent = PyNA
                   /\ shown => rows[2].used = PyNA /\ rows[2].free = PyNA
              /\ noDisk =>
                   /\ \A k \in 1..Len(d.disks) : d.disks[k].used_percent = PyNA
                   /\ shown => \A k \in 3..Len(rows) :
                                 rows[k].used = PyNA /\ rows[k].free = PyNA

(* A rendered table whose CPU query raised a ClientError, whose memory     *)
(* metrics are not listed and whose only disk's query raised a ClientError. *)
C6_Witness ==
    /\ Rendered
    /\ \E i \in DOMAIN cw :
          /\ cw[i].cpu = ClientErr
          /\ cw[i].mem_linux = NotListed
          /\ cw[i].disk = OnePath("/usr", ClientErr)
          /\ BlocksOf(i) # <<>>
          /\ BlocksOf(i)[1].kind = "table"
          /\ BlocksOf(i)[1].rows[1].used = PyNA
          /\ BlocksOf(i)[1].rows[2].used = PyNA
          /\ BlocksOf(i)[1].rows[3].path = "/usr"
          /\ BlocksOf(i)[1].rows[3].used = PyNA

(***************************************************************************)
(* C7.  An exception escaping a step of the handler ends the run with the  *)
(* pair statusCode 500 and the exception's text; the failed step is not    *)
(* retried, nothing is uploaded after the failure, and the handler never   *)
(* raises to its caller.                                                   *)
(***************************************************************************)
C7_TopLevelFailure ==
    /\ response.kind # "raised"
    /\ \A s \in Steps : calls[s] <= 1
    /\ failed # "" =>
         /\ Done
         /\ response.kind = "returned"
         /\ response.statusCode = 500
         /\ response.body = failed
         /\ uploads = 0
         /\ failed \in Steps => calls[failed] = 1
         /\ failed # "put_object" => calls["put_object"] = 0

(* The upload raised after the report was rendered from collected records. *)
C7_Witness ==
    /\ failed = "put_object"
    /\ Rendered
    /\ metrics_data # <<>>
    /\ response.statusCode = 500

(***************************************************************************)
(* C8.  In every CPU, memory or disk row with a numeric reading, the       *)
(* Used % and Free % cells are whole tenths that sum to exactly 100.0; and *)
(* the used reading of a Windows drive is 100 minus the free reading       *)
(* CloudWatch reported for it.                                             *)
(***************************************************************************)
IsDrive(m, x) == m.objectname = "LogicalDisk" /\ m.instance = x

(* The first listed LogicalDisk metric of drive x. *)
FirstDrive(ms, x) ==
    ms[CHOOSE k \in 1..Len(ms) :
         IsDrive(ms[k], x) /\ \A j \in 1..(k - 1) : ~IsDrive(ms[j], x)]

C8_UsedPlusFree ==
    Rendered =>
      /\ \A n \in 1..Len(Rep.blocks) :
           \A k \in 1..Len(Rep.blocks[n].rows) :
             LET row == Rep.blocks[n].rows[k]
             IN  IsNumber(row.used) =>
                   /\ IsNumber(row.free)
                   /\ row.used.v % 10 = 0
                   /\ row.free.v % 10 = 0
                   /\ row.used.v + row.free.v = Pct(100)
      /\ \A i \in DOMAIN cw :
           (is_windows(cw[i]) /\ RecordsOf(i)[1].error = NoError) =>
             \A k \in 1..Len(RecordsOf(i)[1].disks) :
               LET disk == RecordsOf(i)[1].disks[k]
               IN  IsNumber(disk.used_percent) =>
                     /\ \E j \in 1..Len(cw[i].ldisk.metrics) :
                          IsDrive(cw[i].ldisk.metrics[j], disk.path)
                     /\ FirstDrive(cw[i].ldisk.metrics, disk.path).data.k = "val"
                     /\ disk.used_percent.v =
                          Pct(100) - FirstDrive(cw[i].ldisk.metrics, disk.path).data.v

(* A Windows drive reported 60.25 % free: used 39.75, shown as 39.8 and    *)
(* 60.2; and a CPU row of 50.04 shown as 50.0 and 50.0.                    *)
C8_Witness ==
    /\ Rendered
    /\ \E n \in 1..Len(Rep.blocks) :
          /\ Rep.blocks[n].kind = "table"
          /\ \E k \in 1..Len(Rep.blocks[n].rows) :
                /\ Rep.blocks[n].rows[k].type = "Disk"
                /\ Rep.blocks[n].rows[k].path = "C:"
                /\ Rep.blocks[n].rows[k].used = Num(3980)
                /\ Rep.blocks[n].rows[k].free = Num(6020)
          /\ Rep.blocks[n].rows[1].used = Num(5000)
          /\ Rep.blocks[n].rows[1].free = Num(5000)
    /\ \E i \in DOMAIN cw : cw[i].cpu = Val(5004)

(***************************************************************************)
(* C9.  In the summary table each platform row's Total is its Running plus *)
(* its Stopped, the Total Servers row is the column-wise sum of the three  *)
(* platform rows, and every instance of the inventory is counted exactly   *)
(* once.                                                                   *)
(***************************************************************************)
C9_SummaryTotals ==
    Rendered =>
      LET t == Rep.summary
          w == t.rows["Windows"]
          l == t.rows["Linux/UNIX"]
          u == t.rows["SUSE Linux"]
      IN  /\ \A p \in PlatformRows : t.rows[p].total = t.rows[p].running + t.rows[p].stopped
          /\ t.total.running = w.running + l.running + u.running
          /\ t.total.stopped = w.stopped + l.stopped + u.stopped
          /\ t.total.total = w.total + l.total + u.total
          /\ t.total.total = Cardinality(DOMAIN all_instances)
          /\ t.total.running =
               Cardinality({i \in DOMAIN all_instances : all_instances[i].state = "running"})

(* A report over a running Linux instance and a terminated Windows one. *)
C9_Witness ==
    /\ Rendered
    /\ Rep.summary.rows["Linux/UNIX"].running >= 1
    /\ Rep.summary.rows["Windows"].stopped >= 1
    /\ \E i \in DOMAIN all_instances : all_instances[i].state = "terminated"
    /\ Rep.summary.total.total >= 2

(***************************************************************************)
(* C10.  With no running instance in the fleet (at either inventory query) *)
(* and no step of the handler raising, the handler renders and uploads the *)
(* report and returns 200: no fetch was submitted, both alert lists are    *)
(* empty, every Running count is 0 and the Stopped counts are those of the *)
(* fleet.                                                                  *)
(***************************************************************************)
ZeroRunning ==
    /\ \A i \in DOMAIN all_instances : all_instances[i].state # "running"
    /\ \A i \in DOMAIN ec2 : ec2[i].state # "running"

C10_ZeroRunningStillReports ==
    (Done /\ failed = "" /\ ZeroRunning) =>
      /\ response = Success
      /\ uploads = 1
      /\ Rendered
      /\ \A i \in IDs : fut[i].st = "none"
      /\ metrics_data = <<>>
      /\ Rep.yellow_alerts = <<>>
      /\ Rep.red_alerts = <<>>
      /\ Rep.summary.total.running = 0
      /\ \A p \in PlatformRows :
           /\ Rep.summary.rows[p].running = 0
           /\ Rep.summary.rows[p].stopped =
                Cardinality({i \in DOMAIN ec2 : Platform(ec2[i].os_type) = p})

(* A finished run over a fleet of a stopped and a terminated instance. *)
C10_Witness ==
    /\ Done
    /\ response = Success
    /\ ZeroRunning
    /\ \E i \in DOMAIN all_instances : all_instances[i].state = "stopped"
    /\ \E i \in DOMAIN all_instances : all_instances[i].state = "terminated"

(***************************************************************************)
(* C11.  In a rendered report no instance id has more than one detail      *)
(* block, and there is one block per distinct id of the inventory answer,  *)
(* also when the answer lists the same id in more than one reservation.    *)
(***************************************************************************)
C11_OneBlockPerInstance ==
    Rendered =>
      /\ \A i \in IDs : Len(BlocksOf(i)) <= 1
      /\ \A i \in DOMAIN ec2 : Len(BlocksOf(i)) = 1
      /\ Len(Rep.blocks) = Cardinality(DOMAIN ec2)

(* A report rendered from an answer that listed each of two or more        *)
(* instances twice, one of them having a metrics record.                   *)
C11_Witness ==
    /\ Rendered
    /\ Len(Rep.blocks) >= 2
    /\ Len(DescribeInstances(scenario, ec2)) = 2 * Len(Rep.blocks)
    /\ \E n \in 1..Len(Rep.blocks) : Rep.blocks[n].kind = "table"

(***************************************************************************)
(* C12.  One report per invocation: s3.put_object is called at most once   *)
(* and stores at most one object, and the handler returns statusCode 200   *)
(* exactly when that one upload was made and succeeded; every other return *)
(* is the failure pair.                                                    *)
(***************************************************************************)
C12_OneReportPerInvocation ==
    /\ calls["put_object"] <= 1
    /\ uploads <= calls["put_object"]
    /\ (response.kind = "returned" /\ response.statusCode = 200) <=> uploads = 1
    /\ Done => /\ response.kind = "returned"
               /\ response.statusCode \in {200, 500}
               /\ response.statusCode = 500 <=> uploads = 0

(* A run whose only upload succeeded and which returned 200, after a run   *)
(* of fetches of which one raised.                                         *)
C12_Witness ==
    /\ Done
    /\ calls["put_object"] = 1
    /\ uploads = 1
    /\ response.statusCode = 200
    /\ \E n \in 1..Len(metrics_data) : metrics_data[n].error # NoError
    /\ \E n \in 1..Len(metrics_data) : metrics_data[n].error = NoError

(***************************************************************************)
(* C13.  At every instant at most 10 executions of get_instance_metrics    *)
(* are in progress, however many calls were submitted; a call is started   *)
(* only from the queue and never queued again, so it runs at most once;    *)
(* and the handler always returns, every submitted call having by then run *)
(* to completion and left exactly one record.                              *)
(***************************************************************************)
C13_BoundedParallelism ==
    /\ [](Cardinality(InProgress) <= MaxWorkers)
    /\ [][\A i \in DOMAIN fut :
            /\ (fut'[i].st = "running" /\ fut[i].st # "running") => fut[i].st = "queued"
            /\ (fut'[i].st = "queued" /\ fut[i].st # "queued") =>
                 (fut[i].st = "none" /\ pc = "submit")]_vars
    /\ <>Done
    /\ [](pc \in {"create_excel_report", "put_object", "done"} =>
            \A i \in DOMAIN running_instances :
               /\ fut[i].st = "collected"
               /\ i \in DOMAIN cw
               /\ Len(RecordsOf(i)) = 1)

(* Ten calls are in progress while another waits in the queue and an       *)
(* earlier one has been collected.                                         *)
C13_Witness ==
    /\ Cardinality(InProgress) = MaxWorkers
    /\ \E i \in DOMAIN fut : fut[i].st = "queued"
    /\ \E i \in DOMAIN fut : fut[i].st = "collected"

(* The handler has reached line 793. *)
RenderingBegun == pc \in {"create_excel_report", "put_object"} \/ calls["create_excel_report"] > 0

(* A step that moves a queued or running call changes nothing of another  *)
(* instance and does not touch metrics_data.                               *)
WorkerOwnsItsFuture ==
    \A i \in DOMAIN fut :
      (fut[i].st \in {"queued", "running"} /\ fut'[i] # fut[i]) =>
        /\ \A j \in DOMAIN fut \ {i} : fut'[j] = fut[j]
        /\ \A j \in DOMAIN cw : cw'[j] = cw[j]
        /\ metrics_data' = metrics_data

(* metrics_data changes only by the handler appending the record of a      *)
(* finished future.                                                        *)
OnlyHandlerAppends ==
    metrics_data' # metrics_data =>
      /\ pc = "collect"
      /\ \E i \in DOMAIN fut :
            /\ fut[i].st = "finished"
            /\ fut'[i].st = "collected"
            /\ metrics_data' = Append(metrics_data, ExpectedRecord(i))

(***************************************************************************)
(* C14.  A worker's step changes only its own future and what CloudWatch   *)
(* answered it, and only the handler appends to metrics_data; from the     *)
(* moment rendering begins no fetch is queued or in progress, and          *)
(* metrics_data holds exactly one record for each submitted instance id,   *)
(* the one its own fetch produced, and no other record; all this for every *)
(* order in which the fetches complete and are collected.                  *)
(***************************************************************************)
C14_CollectionComplete ==
    /\ [](RenderingBegun =>
            /\ \A i \in DOMAIN fut : fut[i].st \in {"none", "collected"}
            /\ \A i \in DOMAIN running_instances :
                  /\ fut[i].st = "collected"
                  /\ i \in DOMAIN cw
                  /\ RecordsOf(i) = <<ExpectedRecord(i)>>
            /\ Len(metrics_data) = Cardinality(DOMAIN running_instances)
            /\ \A n \in 1..Len(metrics_data) :
                  metrics_data[n].instance_id \in DOMAIN running_instances)
    /\ [][WorkerOwnsItsFuture /\ OnlyHandlerAppends]_vars

(* Rendering begins with the records of two fetches collected in the       *)
(* reverse of the order of submission, the first of them a failed fetch.   *)
C14_Witness ==
    /\ pc = "create_excel_report"
    /\ Len(metrics_data) >= 2
    /\ metrics_data[1].instance_id > metrics_data[2].instance_id
    /\ metrics_data[1].error # NoError
    /\ metrics_data[2].error = NoError

(* The metric names of each platform, and the probe's place in a trace. *)
LinuxNames == {"mem_used_percent", "disk_used_percent"}
WindowsNames ==
    {"Memory % Committed Bytes In Use", "Memory Available Mbytes", "LogicalDisk % Free Space"}
DiskNames == {"disk_used_percent", "LogicalDisk % Free Space"}

ProbeIndex(rs) ==
    IF \E k \in 1..Len(rs) : rs[k] = ProbeRequest
    THEN CHOOSE k \in 1..Len(rs) : rs[k] = ProbeRequest
    ELSE 0

(* The probe's listing names at least one metric. *)
ProbeFindsMetric(c) == c.ldisk.list = "ok" /\ Len(c.ldisk.metrics) > 0

MemoryRank(name) ==
    IF name = "mem_used_percent" THEN 1
    ELSE IF name = "Memory % Committed Bytes In Use" THEN 2
    ELSE 3

(***************************************************************************)
(* C15.  In the requests of every fetch, no metric name of either platform *)
(* is requested before the probe for LogicalDisk % Free Space, and after   *)
(* the probe only names of the detected platform are requested.            *)
(***************************************************************************)
C15_ProbeBeforeNames ==
    \A i \in DOMAIN cw :
      ~cw[i].crash =>
        LET rs == Requests(cw[i])
            p == ProbeIndex(rs)
            detected == IF ProbeFindsMetric(cw[i]) THEN WindowsNames ELSE LinuxNames
        IN  \A k \in 1..Len(rs) :
              (k # p /\ rs[k].name \in LinuxNames \cup WindowsNames) =>
                (p > 0 /\ k > p /\ rs[k].name \in detected)

(***************************************************************************)
(* C15, amended.  Every fetch requests CPUUtilization first, then the      *)
(* memory metric names of both platforms in the fixed order                *)
(* mem_used_percent, Memory % Committed Bytes In Use, Memory Available     *)
(* Mbytes, whatever the platform, and only then sends the probe; no disk   *)
(* metric name is requested before the probe, and after the probe only the *)
(* disk metric name of the detected platform is requested.  The probe is   *)
(* left out only when the CPU or a memory request raised.                  *)
(***************************************************************************)
C15_ProbeDecidesDisks ==
    \A i \in DOMAIN cw :
      ~cw[i].crash =>
        LET rs == Requests(cw[i])
            p == ProbeIndex(rs)
            disk == IF ProbeFindsMetric(cw[i]) THEN "LogicalDisk % Free Space"
                    ELSE "disk_used_percent"
        IN  /\ rs[1].name = "CPUUtilization"
            /\ Len(rs) > 1 => rs[2] = Req("get_memory_metric", "list", "mem_used_percent")
            /\ \A k \in 1..Len(rs) :
                  rs[k].by = "get_memory_metric" =>
                    /\ p > 0 => k < p
                    /\ k > 2 => /\ rs[k - 1].by = "get_memory_metric"
                                /\ MemoryRank(rs[k - 1].name) <= MemoryRank(rs[k].name)
            /\ \A k \in 1..Len(rs) :
                  (k # p /\ rs[k].name \in DiskNames) => (p > 0 /\ k > p)
            /\ p > 0 => /\ Len(rs) > p
                        /\ \A k \in (p + 1)..Len(rs) : rs[k].name = disk
                        /\ rs[p + 1].op = "list"
            /\ p = 0 => get_instance_metrics(i, cw[i]).error # NoError

(* A fetch of an instance on which the probe found drives: it had asked    *)
(* for mem_used_percent and then for the Windows memory metric before the  *)
(* probe, and queried a drive after it.                                    *)
C15_Witness ==
    /\ Rendered
    /\ \E i \in DOMAIN cw :
          /\ ProbeFindsMetric(cw[i])
          /\ \E k \in 1..Len(Requests(cw[i])) :
                Requests(cw[i])[k] =
                  Req("get_memory_metric", "data", "Memory % Committed Bytes In Use")
          /\ \E k \in 1..Len(Requests(cw[i])) :
                Requests(cw[i])[k] =
                  Req("get_windows_disks_all", "data", "LogicalDisk % Free Space")
          /\ BlocksOf(i)[1].kind = "table"

(***************************************************************************)
(* C16.  The inventory is read a single time in a run, and the records     *)
(* that decide which instances get a fetch are the records the summary and *)
(* the detail section are rendered from: once the fetches are submitted,   *)
(* running_instances is all_instances restricted to its running instances. *)
(***************************************************************************)
C16_InventoryReadOnce ==
    /\ calls["get_all_instances"] + calls["get_running_instances"] <= 1
    /\ pc \in {"submit", "collect", "create_excel_report", "put_object"} =>
         running_instances =
           [i \in {j \in DOMAIN all_instances : all_instances[j].state = "running"} |->
              all_instances[i]]

(* Line 22. *)
ALLOWED_DISK_PATHS == {"/", "/usr", "/hana"}

(***************************************************************************)
(* C17.  For an instance detected as Linux, every disk entry of its        *)
(* metrics record has a path in ALLOWED_DISK_PATHS, and so has every disk  *)
(* row of its table and every disk alert naming it: a disk_used_percent    *)
(* metric listed for any other path leaves no entry, row or alert.         *)
(***************************************************************************)
C17_OnlyAllowedDiskPaths ==
    \A i \in DOMAIN cw :
      (~cw[i].crash /\ ~ProbeFindsMetric(cw[i])) =>
        /\ \A n \in 1..Len(RecordsOf(i)) :
              \A k \in 1..Len(RecordsOf(i)[n].disks) :
                RecordsOf(i)[n].disks[k].path \in ALLOWED_DISK_PATHS
        /\ Rendered =>
              /\ \A n \in 1..Len(BlocksOf(i)) :
                    \A k \in 1..Len(BlocksOf(i)[n].rows) :
                      LET row == BlocksOf(i)[n].rows[k]
                      IN  (row.type = "Disk" /\ row.path # "No disk metrics available") =>
                            row.path \in ALLOWED_DISK_PATHS
              /\ \A a \in {Rep.red_alerts[k] : k \in 1..Len(Rep.red_alerts)}
                         \cup {Rep.yellow_alerts[k] : k \in 1..Len(Rep.yellow_alerts)} :
                    (a.name = i /\ a.metric = "Disk") => a.path \in ALLOWED_DISK_PATHS

(***************************************************************************)
(* C18.  For every numeric reading shown in a metrics table, the fill of   *)
(* its Used % cell agrees with the alert the reading produced: red exactly *)
(* with a critical alert, yellow exactly with a warning alert, no fill     *)
(* exactly with no alert.                                                  *)
(***************************************************************************)
C18_TierMatchesFill ==
    Rendered =>
      \A i \in DOMAIN all_instances :
        (RecordsOf(i) # <<>> /\ BlocksOf(i)[1].kind = "table") =>
          LET rs == ReadingsOf(RecordsOf(i)[1])
              rows == BlocksOf(i)[1].rows
          IN  \A k \in 1..Len(rs) :
                IsNumber(rs[k].value) =>
                  LET red == AlertCount(Rep.red_alerts, i, rs[k])
                      yellow == AlertCount(Rep.yellow_alerts, i, rs[k])
                  IN  /\ rows[k].fill = "red" <=> (red = 1 /\ yellow = 0)
                      /\ rows[k].fill = "yellow" <=> (red = 0 /\ yellow = 1)
                      /\ rows[k].fill = "none" <=> (red = 0 /\ yellow = 0)

(***************************************************************************)
(* C19.  Every detail block that shows the state 'running' belongs to an   *)
(* instance fetched in this run and shows its metrics table or its fetch's *)
(* error text, never 'No metrics data'; and every alert of the summary     *)
(* names an instance whose detail block shows 'running' with a table.      *)
(***************************************************************************)
C19_RunningBlocksAndAlerts ==
    Rendered =>
      /\ \A n \in 1..Len(Rep.blocks) :
            LET b == Rep.blocks[n]
            IN  b.state = "running" =>
                  /\ FetchStarted(b.instance_id)
                  /\ RecordsOf(b.instance_id) # <<>>
                  /\ b.msg # "No metrics data"
                  /\ \/ b.kind = "table"
                     \/ b.kind = "text" /\ b.msg = RecordsOf(b.instance_id)[1].error
      /\ \A a \in {Rep.red_alerts[k] : k \in 1..Len(Rep.red_alerts)}
                 \cup {Rep.yellow_alerts[k] : k \in 1..Len(Rep.yellow_alerts)} :
            \E n \in 1..Len(Rep.blocks) :
              /\ Rep.blocks[n].instance_id = a.name
              /\ Rep.blocks[n].state = "running"
              /\ Rep.blocks[n].kind = "table"

=============================================================================
